---- MODULE Spec2Model ----
(***************************************************************************)
(* A model of the DTX session of pymobiledevice3:                          *)
(*   src/pymobiledevice3/services/dvt/dvt_secure_socket_proxy.py           *)
(* The session (DvtSecureSocketProxyService) owns a transport, the message *)
(* identifier counter cur_message, the channel code counter                *)
(* last_channel_code, the channel table and the advertised identifiers.    *)
(* The transport is a mock: `wire` records every sendall call, `inbound`   *)
(* is the queue of frames the peer has written and the session has not     *)
(* read yet.  Payloads are byte sequences (integers 0..255).               *)
(***************************************************************************)
EXTENDS Integers, Sequences, FiniteSets, TLC

VARIABLES
    cur_message,            \* self.cur_message
    last_channel_code,      \* self.last_channel_code
    supported_identifiers,  \* self.supported_identifiers (the keys matter)
    channels,               \* self.channels: identifier -> channel code
    wire,                   \* the sendall calls of self.service, in order
    inbound,                \* frames written by the peer, not yet read
    pc,                     \* where the (single) caller is inside a method
    result                  \* outcome of the caller's last method step

vars == <<cur_message, last_channel_code, supported_identifiers, channels,
          wire, inbound, pc, result>>

-----------------------------------------------------------------------------
(* Bounds of the model.                                                    *)

\* sendall calls explored on one session
MaxSends == 3
\* frames the peer may have queued and unread at one time, session runs
MaxPending == 1
\* sendall calls explored in the codec runs
MaxCodecSends == 1
\* frames the peer may have queued and unread at one time, reassembly runs
MaxFrames == 3
\* send_message calls explored in the runs of two callers
MaxConcSends == 3
\* unread inbound frames in the runs of whole messages in fragments
MaxStreamFrames == 5
\* unread inbound frames in the runs of ls against a peer that writes ahead
MaxFifoFrames == 3
\* sendall calls explored in those runs
MaxFifoSends == 3
\* sendall calls explored in the runs of the channel proxy
MaxProxySends == 1
\* sendall calls explored in the runs of ls
MaxLsSends == 4
\* sendall calls explored in the runs of network_monitor
MaxMonitorSends == 5

-----------------------------------------------------------------------------
(* Program constants.                                                      *)

INSTRUMENTS_MESSAGE_TYPE == 2
EXPECTS_REPLY_MASK == 4096
DEVICEINFO_IDENTIFIER == "com.apple.instruments.server.services.deviceinfo"
PROCESS_CONTROL_IDENTIFIER == "com.apple.instruments.server.services.processcontrol"
NETWORKING_IDENTIFIER == "com.apple.instruments.server.services.networking"
NotifySelector == "_notifyOfPublishedCapabilities:"
RequestChannelSelector == "_requestChannelWithCode:identifier:"

-----------------------------------------------------------------------------
(* Python values.  Every value is a record of one shape so that any two    *)
(* can be compared: t is the Python type, the other fields hold the value. *)

None == [t |-> "none", s |-> "", n |-> 0, items |-> <<>>, map |-> {}]
StrV(x) == [None EXCEPT !.t = "str", !.s = x]
IntV(x) == [None EXCEPT !.t = "int", !.n = x]
\* a list of strings
ListV(xs) == [None EXCEPT !.t = "list", !.items = xs]
\* a dict, as its set of <<key, value>> pairs (string keys, integer values)
DictV(kv) == [None EXCEPT !.t = "dict", !.map = kv]
Keys(kv) == {p[1] : p \in kv}

\* a MessageAux / a decoded auxiliary: absent (Python None) or a list of entries
NoAux == [present |-> FALSE, entries |-> <<>>]
Aux(es) == [present |-> TRUE, entries |-> es]
ObjEntry(v) == [type |-> 2, value |-> v]
IntEntry(k) == [type |-> 4, value |-> IntV(k)]

-----------------------------------------------------------------------------
(* Bytes.                                                                  *)

\* n as w little-endian bytes
RECURSIVE LE(_, _)
LE(n, w) == IF w = 0 THEN <<>> ELSE <<n % 256>> \o LE(n \div 256, w - 1)

RECURSIVE FromLE(_)
FromLE(b) == IF b = <<>> THEN 0 ELSE b[1] + 256 * FromLE(Tail(b))

\* bytes lo..hi of b (1-based, inclusive), cut at the end of b as a stream read is
Slice(b, lo, hi) ==
    LET top == IF hi > Len(b) THEN Len(b) ELSE hi
    IN  IF lo > top THEN <<>> ELSE [i \in 1..(top - lo + 1) |-> b[lo + i - 1]]

-----------------------------------------------------------------------------
(* Channel._sanitize_name.  A name is the sequence of its characters.      *)

\* the string of a sequence of characters
RECURSIVE Join(_)
Join(cs) == IF cs = <<>> THEN "" ELSE Head(cs) \o Join(Tail(cs))

\* str.replace('_', ':')
Replace(name) == [i \in 1..Len(name) |-> IF name[i] = "_" THEN ":" ELSE name[i]]

\* every underscore replaced, the leading one too
SanitizeEveryUnderscore(name) == Replace(name)

_sanitize_name(name) ==
    IF name # <<>> /\ Head(name) = "_"
    THEN <<"_">> \o Replace(Tail(name))
    ELSE Replace(name)

\* names a caller invokes on a channel proxy: every name of one to three
\* characters over "_", "a", "b", and three selectors of the services
ProxyChars == {"_", "a", "b"}
ProxyNameLengths == 1..3
ProxyNames ==
    UNION {[1..n -> ProxyChars] : n \in ProxyNameLengths}
    \cup { <<"k", "i", "l", "l", "P", "i", "d", "_">>,
           <<"f", "o", "o", "_", "b", "a", "r", "_", "b", "a", "z", "_">>,
           <<"_", "n", "o", "t", "i", "f", "y", "O", "f", "P", "u", "b", "l", "i", "s",
             "h", "e", "d", "C", "a", "p", "a", "b", "i", "l", "i", "t", "i", "e", "s",
             "_">> }

-----------------------------------------------------------------------------
(* Keyed archive codec (archiver.archive / archiver.unarchive).  The       *)
(* archive of a value is a tag byte followed by the value's content;       *)
(* strings are written as their index in the archive's string table.       *)

BaseStrings ==
    << NotifySelector, RequestChannelSelector,
       DEVICEINFO_IDENTIFIER, PROCESS_CONTROL_IDENTIFIER, NETWORKING_IDENTIFIER,
       "com.apple.private.DTXBlockCompression", "com.apple.private.DTXConnection",
       "directoryListingForPath:", "runningProcesses", "startMonitoring",
       "stopMonitoring", "/var", "a", "b" >>

\* the elements of a set in some order
RECURSIVE SeqOf(_)
SeqOf(S) ==
    IF S = {} THEN <<>>
    ELSE LET x == CHOOSE y \in S : TRUE IN <<x>> \o SeqOf(S \ {x})

\* the strings of the table: the ones above and the selectors a channel
\* proxy makes of the names it is called with
StrTable ==
    BaseStrings \o
    SeqOf({Join(_sanitize_name(name)) : name \in ProxyNames}
             \ {BaseStrings[i] : i \in 1..Len(BaseStrings)})

StrCode(s) == CHOOSE i \in 1..Len(StrTable) : StrTable[i] = s

RECURSIVE DictBytes(_)
DictBytes(kv) ==
    IF kv = {} THEN <<>>
    ELSE LET p == CHOOSE q \in kv : \A r \in kv : StrCode(q[1]) <= StrCode(r[1])
         IN  <<StrCode(p[1]), p[2]>> \o DictBytes(kv \ {p})

archive(v) ==
    CASE v.t = "str"  -> <<1, StrCode(v.s)>>
      [] v.t = "int"  -> <<2, v.n>>
      [] v.t = "list" -> <<3, Len(v.items)>> \o [i \in 1..Len(v.items) |-> StrCode(v.items[i])]
      [] v.t = "dict" -> <<4, Cardinality(v.map)>> \o DictBytes(v.map)
      [] OTHER        -> <<5>>

\* the archive of an object whose class has no entry in the class map
UnknownClassArchive == <<6, 1>>
\* bytes that are no archive at all
InvalidArchive == <<0, 0>>

\* unarchive: status "ok" with the value, "MissingClassMapping", or
\* "InvalidFileException" (plistlib)
unarchive(d) ==
    LET bad == [status |-> "InvalidFileException", value |-> None]
        ok(v) == [status |-> "ok", value |-> v]
        isStr(c) == c \in 1..Len(StrTable)
    IN  IF d = <<>> THEN bad
        ELSE CASE d[1] = 1 ->
                    IF Len(d) = 2 /\ isStr(d[2]) THEN ok(StrV(StrTable[d[2]])) ELSE bad
               [] d[1] = 2 ->
                    IF Len(d) = 2 THEN ok(IntV(d[2])) ELSE bad
               [] d[1] = 3 ->
                    IF Len(d) >= 2 /\ Len(d) = 2 + d[2] /\ \A i \in 3..Len(d) : isStr(d[i])
                    THEN ok(ListV([i \in 1..d[2] |-> StrTable[d[2 + i]]]))
                    ELSE bad
               [] d[1] = 4 ->
                    IF Len(d) >= 2 /\ Len(d) = 2 + 2 * d[2]
                       /\ \A i \in 1..d[2] : isStr(d[1 + 2 * i])
                    THEN ok(DictV({<<StrTable[d[1 + 2 * i]], d[2 + 2 * i]>> : i \in 1..d[2]}))
                    ELSE bad
               [] d[1] = 5 ->
                    \* NSNull.decode_archive returns None
                    IF Len(d) = 1 THEN ok(None) ELSE bad
               [] d[1] = 6 -> [status |-> "MissingClassMapping", value |-> None]
               [] OTHER -> bad

-----------------------------------------------------------------------------
(* Auxiliary codec (MessageAux / message_aux_t_struct): magic 0x1f0, the   *)
(* byte length of the entries, then the entries; an entry is a 32-bit type *)
(* tag and a value: OBJECT (2) a 32-bit length and an archive, INT64 (4)   *)
(* eight bytes.                                                            *)

EntryBytes(e) ==
    IF e.type = 2
    THEN LE(2, 4) \o LE(Len(archive(e.value)), 4) \o archive(e.value)
    ELSE LE(4, 4) \o LE(e.value.n, 8)

RECURSIVE EntriesBytes(_)
EntriesBytes(es) ==
    IF es = <<>> THEN <<>> ELSE EntryBytes(Head(es)) \o EntriesBytes(Tail(es))

\* bytes(args)
AuxBytes(es) == LE(496, 8) \o LE(Len(EntriesBytes(es)), 8) \o EntriesBytes(es)

\* Parsing the entries.  Each step hands what it has read to the next as a
\* parameter, so that every value is computed once.
NoEntries == [ok |-> FALSE, entries |-> <<>>]

\* the entry of type tag `type` at the head of b; obj is its unarchived object
EntryValue(b, type, obj) ==
    IF type = 2 THEN ObjEntry(obj.value) ELSE IntEntry(FromLE(Slice(b, 5, 12)))

\* the byte size of the entry at the head of b
EntrySize(b, type) ==
    IF type = 2 /\ Len(b) >= 8 THEN 8 + FromLE(Slice(b, 5, 8)) ELSE 12

EntryGood(b, type, size, obj) ==
    /\ type \in {2, 4}
    /\ Len(b) >= size
    /\ type = 2 => obj.status = "ok"

EntryJoin(this, rest) ==
    IF rest.ok THEN [ok |-> TRUE, entries |-> <<this>> \o rest.entries] ELSE NoEntries

\* the entries held by the bytes b; ok is FALSE when b is no list of entries
\* (an unknown type tag, a cut entry, an object that does not unarchive)
RECURSIVE ParseEntries(_)
ParseEntryObj(b, type, size, obj) ==
    IF EntryGood(b, type, size, obj)
    THEN EntryJoin(EntryValue(b, type, obj), ParseEntries(Slice(b, size + 1, Len(b))))
    ELSE NoEntries
ParseEntrySized(b, type, size) ==
    ParseEntryObj(b, type, size, unarchive(Slice(b, 9, size)))
ParseEntries(b) ==
    IF b = <<>> THEN [ok |-> TRUE, entries |-> <<>>]
    ELSE IF Len(b) < 4 THEN NoEntries
    ELSE ParseEntrySized(b, FromLE(Slice(b, 1, 4)), EntrySize(b, FromLE(Slice(b, 1, 4))))

\* message_aux_t_struct.parse_stream on stream s whose read position is pos
\* (bytes already read); next is the read position afterwards
ParseAuxBody(s, pos, size, body) ==
    IF Len(s) < pos + 16 + size \/ ~body.ok
    THEN [ok |-> FALSE, entries |-> <<>>, next |-> pos]
    ELSE [ok |-> TRUE, entries |-> body.entries, next |-> pos + 16 + size]
ParseAuxSized(s, pos, size) ==
    ParseAuxBody(s, pos, size, ParseEntries(Slice(s, pos + 17, pos + 16 + size)))
ParseAux(s, pos) == ParseAuxSized(s, pos, FromLE(Slice(s, pos + 9, pos + 16)))

-----------------------------------------------------------------------------
(* Frame codec.  A frame is one message header (dtx_message_header_struct, *)
(* kept as its fields) and the bytes that follow it on the transport.      *)

\* dtx_message_header_struct.sizeof()
MessageHeaderSize == 32
\* dtx_message_payload_header_struct.sizeof()
PayloadHeaderSize == 16

\* dtx_message_payload_header_struct.build: flags, auxiliaryLength, totalLength
PayloadHeaderBytes(flags, auxiliaryLength, totalLength) ==
    LE(flags, 4) \o LE(auxiliaryLength, 4) \o LE(totalLength, 8)

\* dtx_message_payload_header_struct.parse_stream on the first bytes of s
PayloadHeaderParse(s) ==
    [flags           |-> FromLE(Slice(s, 1, 4)),
     auxiliaryLength |-> FromLE(Slice(s, 5, 8)),
     totalLength     |-> FromLE(Slice(s, 9, 16))]

Frame(cb, fragmentId, fragmentCount, length, identifier, conversationIndex, channelCode, expectsReply, data) ==
    [cb |-> cb, fragmentId |-> fragmentId, fragmentCount |-> fragmentCount,
     length |-> length, identifier |-> identifier,
     conversationIndex |-> conversationIndex, channelCode |-> channelCode,
     expectsReply |-> expectsReply, data |-> data]

-----------------------------------------------------------------------------
(* Session: the send path.                                                 *)

\* flags = INSTRUMENTS_MESSAGE_TYPE; if expects_reply: flags |= EXPECTS_REPLY_MASK
\* (the two constants share no bit, so the or is a sum)
SendFlags(expects_reply) ==
    IF expects_reply THEN INSTRUMENTS_MESSAGE_TYPE + EXPECTS_REPLY_MASK
    ELSE INSTRUMENTS_MESSAGE_TYPE

\* pheader + aux + sel of send_message
SendPayload(selector, args, expects_reply) ==
    LET aux == IF args.present THEN AuxBytes(args.entries) ELSE <<>>
        sel == IF selector.t # "none" THEN archive(selector) ELSE <<>>
    IN  PayloadHeaderBytes(SendFlags(expects_reply), Len(aux), Len(aux) + Len(sel))
        \o aux \o sel

\* the frame send_message hands to sendall when the counter stands at cur
SendFrame(cur, channel, selector, args, expects_reply) ==
    LET payload == SendPayload(selector, args, expects_reply)
    IN  Frame(MessageHeaderSize, 0, 1, Len(payload), cur + 1, 0, channel,
              IF expects_reply THEN 1 ELSE 0, payload)

\* send_message with the counter incremented after the frame is built
send_message_postincrement(channel, selector, args, expects_reply) ==
    /\ cur_message' = cur_message + 1
    /\ wire' = Append(wire, SendFrame(cur_message - 1, channel, selector, args, expects_reply))

\* send_message: the counter is incremented, then one frame is written
send_message(channel, selector, args, expects_reply) ==
    /\ cur_message' = cur_message + 1
    /\ wire' = Append(wire, SendFrame(cur_message, channel, selector, args, expects_reply))

-----------------------------------------------------------------------------
(* Session: the receive path.                                              *)

\* the loop with each fragment put in front of packet_data
RECURSIVE ReadFragmentsPrepend(_, _, _, _)
ReadFragmentsPrepend(q, i, cur, data) ==
    IF i > Len(q)
    THEN [done |-> FALSE, n |-> Len(q), cur |-> cur, data |-> data]
    ELSE LET mheader == q[i]
             cur2 == IF mheader.conversationIndex = 0 /\ mheader.identifier > cur
                     THEN mheader.identifier ELSE cur
         IN  IF mheader.fragmentCount > 1 /\ mheader.fragmentId = 0
             THEN ReadFragmentsPrepend(q, i + 1, cur2, data)
             ELSE IF mheader.fragmentId = mheader.fragmentCount - 1
                  THEN [done |-> TRUE, n |-> i, cur |-> cur2,
                        data |-> mheader.data \o data]
                  ELSE ReadFragmentsPrepend(q, i + 1, cur2, mheader.data \o data)

\* The loop of _recv_packet_fragments over the unread frames q, from frame i
\* on, with the counter at cur and packet_data at data.  done is FALSE when
\* the loop needs a frame the peer has not written yet (recvall blocks).
RECURSIVE ReadFragments(_, _, _, _)
ReadFragments(q, i, cur, data) ==
    IF i > Len(q)
    THEN [done |-> FALSE, n |-> Len(q), cur |-> cur, data |-> data]
    ELSE LET mheader == q[i]
             cur2 == IF mheader.conversationIndex = 0 /\ mheader.identifier > cur
                     THEN mheader.identifier ELSE cur
         IN  IF mheader.fragmentCount > 1 /\ mheader.fragmentId = 0
             THEN ReadFragments(q, i + 1, cur2, data)
             ELSE IF mheader.fragmentId = mheader.fragmentCount - 1
                  THEN [done |-> TRUE, n |-> i, cur |-> cur2,
                        data |-> data \o mheader.data]
                  ELSE ReadFragments(q, i + 1, cur2, data \o mheader.data)

\* _recv_packet_fragments that leaves the counter alone
RecvPacketFragmentsNoCounter(q, cur) ==
    [ReadFragments(q, 1, cur, <<>>) EXCEPT !.cur = cur]

\* _recv_packet_fragments: n frames read, the counter afterwards, packet_data
_recv_packet_fragments(q, cur) == ReadFragments(q, 1, cur, <<>>)

\* (pheader.flags & 0xFF000) >> 12
Compression(flags) == (flags \div 4096) % 256

\* recv_message after _recv_packet_fragments returned the stream s: the
\* exception raised ("" when none), the returned pair, and pos, the read
\* position of the stream when the method ends.  Each step hands what it has
\* read to the next as a parameter.
Decoded(error, ret, aux, pos) == [error |-> error, ret |-> ret, aux |-> aux, pos |-> pos]

\* ret = archiver.unarchive(data), with its two except clauses
DecodeReturn(aux, pos, data, un) ==
    IF data = <<>> THEN Decoded("", None, aux, pos)
    ELSE IF un.status = "MissingClassMapping"
    THEN Decoded("MissingClassMapping", None, NoAux, pos + Len(data))
    ELSE IF un.status = "InvalidFileException"
    THEN Decoded("", None, aux, pos + Len(data))
    ELSE Decoded("", un.value, aux, pos + Len(data))

\* data = packet_stream.read(obj_size); a negative size reads to the end
DecodeObject(s, aux, pos, obj_size) ==
    DecodeReturn(aux, pos,
                 IF obj_size < 0 THEN Slice(s, pos + 1, Len(s))
                 ELSE Slice(s, pos + 1, pos + obj_size),
                 unarchive(IF obj_size < 0 THEN Slice(s, pos + 1, Len(s))
                           ELSE Slice(s, pos + 1, pos + obj_size)))

\* if pheader.auxiliaryLength: aux = parse_stream(...).aux, else None
DecodeAux(s, pheader, parsed) ==
    IF pheader.auxiliaryLength # 0 /\ ~parsed.ok
    THEN Decoded("StreamError", None, NoAux, PayloadHeaderSize)
    ELSE IF pheader.auxiliaryLength # 0
    THEN DecodeObject(s, Aux(parsed.entries), parsed.next,
                      pheader.totalLength - pheader.auxiliaryLength)
    ELSE DecodeObject(s, NoAux, PayloadHeaderSize,
                      pheader.totalLength - pheader.auxiliaryLength)

\* the compression check made after the auxiliary and the object are parsed
DecodeHeaderLateCheck(s, pheader) ==
    IF Len(s) < PayloadHeaderSize
    THEN Decoded("StreamError", None, NoAux, 0)
    ELSE IF Compression(pheader.flags) # 0
    THEN Decoded("NotImplementedError", None, NoAux,
                 DecodeAux(s, pheader, ParseAux(s, PayloadHeaderSize)).pos)
    ELSE DecodeAux(s, pheader, ParseAux(s, PayloadHeaderSize))

\* the compression check, made before anything else is parsed
DecodeHeader(s, pheader) ==
    IF Len(s) < PayloadHeaderSize
    THEN Decoded("StreamError", None, NoAux, 0)
    ELSE IF Compression(pheader.flags) # 0
    THEN Decoded("NotImplementedError", None, NoAux, PayloadHeaderSize)
    ELSE DecodeAux(s, pheader, ParseAux(s, PayloadHeaderSize))

DecodeStream(s) == DecodeHeader(s, PayloadHeaderParse(s))

\* recv_message over the unread frames q with the counter at cur
Received(r, d) ==
    [done |-> r.done, n |-> r.n, cur |-> r.cur, packet |-> r.data,
     error |-> d.error, ret |-> d.ret, aux |-> d.aux, pos |-> d.pos]
RecvDecode(r) == Received(r, DecodeStream(r.data))
recv_message(q, cur) == RecvDecode(_recv_packet_fragments(q, cur))

-----------------------------------------------------------------------------
(* The caller.  pc.at is "idle" between method calls; inside a method that *)
(* sends and then waits for a message it names the method.                 *)

Idle == [at |-> "idle", ident |-> "", code |-> 0]

NoResult == [op |-> "", error |-> "", ret |-> None, aux |-> NoAux, channel |-> 0,
             ident |-> "", frames |-> <<>>, packet |-> <<>>, pos |-> 0]

\* __init__
Init ==
    /\ cur_message = 0
    /\ last_channel_code = 0
    /\ supported_identifiers = {}
    /\ channels = [x \in {} |-> 0]
    /\ wire = <<>>
    /\ inbound = <<>>
    /\ pc = Idle
    /\ result = NoResult

\* a caller invokes send_message
SendMessage(channel, selector, args, expects_reply) ==
    /\ pc.at = "idle"
    /\ send_message(channel, selector, args, expects_reply)
    /\ result' = [NoResult EXCEPT !.op = "send_message"]
    /\ UNCHANGED <<last_channel_code, supported_identifiers, channels, inbound, pc>>

\* The part every receiving method shares: the frames r tells of are read
\* and the counter follows the identifiers read.
Consume(r) ==
    /\ r.done
    /\ cur_message' = r.cur
    /\ inbound' = SubSeq(inbound, r.n + 1, Len(inbound))

\* the outcome of method op that read r and ends with exception error
Outcome(op, r, error) ==
    [NoResult EXCEPT !.op = op, !.error = error, !.ret = r.ret, !.aux = r.aux,
                     !.frames = SubSeq(inbound, 1, r.n),
                     !.packet = r.packet, !.pos = r.pos]

\* recv_message that leaves a compressed message on the transport
RecvMessageOfCompressedUnread(r) ==
    /\ pc.at = "idle"
    /\ r.done
    /\ cur_message' = r.cur
    /\ inbound' = IF r.error = "NotImplementedError" THEN inbound
                  ELSE SubSeq(inbound, r.n + 1, Len(inbound))
    /\ result' = Outcome("recv_message", r, r.error)
    /\ UNCHANGED <<last_channel_code, supported_identifiers, channels, wire, pc>>

\* a caller invokes recv_message; it returns once a whole message is there
RecvMessageOf(r) ==
    /\ pc.at = "idle"
    /\ Consume(r)
    /\ result' = Outcome("recv_message", r, r.error)
    /\ UNCHANGED <<last_channel_code, supported_identifiers, channels, wire, pc>>
RecvMessage == RecvMessageOf(recv_message(inbound, cur_message))

\* a caller invokes _recv_packet_fragments alone
RecvPacketFragmentsOf(r) ==
    /\ pc.at = "idle"
    /\ Consume(r)
    /\ result' = [NoResult EXCEPT !.op = "_recv_packet_fragments",
                                  !.frames = SubSeq(inbound, 1, r.n),
                                  !.packet = r.data]
    /\ UNCHANGED <<last_channel_code, supported_identifiers, channels, wire, pc>>
RecvPacketFragments == RecvPacketFragmentsOf(_recv_packet_fragments(inbound, cur_message))

\* the capability map perform_handshake advertises
HandshakeArgs ==
    Aux(<<ObjEntry(DictV({<<"com.apple.private.DTXBlockCompression", 0>>,
                          <<"com.apple.private.DTXConnection", 1>>}))>>)

\* perform_handshake up to its recv_message
PerformHandshake ==
    /\ pc.at = "idle"
    /\ Len(wire) < MaxSends
    /\ send_message(0, StrV(NotifySelector), HandshakeArgs, FALSE)
    /\ pc' = [Idle EXCEPT !.at = "perform_handshake"]
    /\ result' = [NoResult EXCEPT !.op = "perform_handshake", !.error = "pending"]
    /\ UNCHANGED <<last_channel_code, supported_identifiers, channels, inbound>>

\* len(entry) of an auxiliary entry: the number of keys of the map it
\* holds, 0 when it holds no map
EntryLen(e) == IF e.value.t = "dict" THEN Cardinality(e.value.map) ELSE 0

\* perform_handshake without the comparison of the returned selector
HandshakeErrorAnySelector(ret, aux) ==
    IF ~aux.present THEN "TypeError"
    ELSE IF aux.entries = <<>> THEN "IndexError"
    ELSE IF EntryLen(aux.entries[1]) = 0 THEN "ValueError"
    ELSE ""

\* the exception perform_handshake raises on the pair (ret, aux), "" when
\* none; aux[0] fails on a missing (None) or empty auxiliary
HandshakeError(ret, aux) ==
    IF ret # StrV(NotifySelector) THEN "ValueError"
    ELSE IF ~aux.present THEN "TypeError"
    ELSE IF aux.entries = <<>> THEN "IndexError"
    ELSE IF EntryLen(aux.entries[1]) = 0 THEN "ValueError"
    ELSE ""

\* perform_handshake from its recv_message on
PerformHandshakeEnd(r, error) ==
    /\ pc.at = "perform_handshake"
    /\ Consume(r)
    /\ supported_identifiers' =
          IF error = "" THEN Keys(r.aux.entries[1].value.map)
          ELSE supported_identifiers
    /\ pc' = Idle
    /\ result' = Outcome("perform_handshake", r, error)
    /\ UNCHANGED <<last_channel_code, channels, wire>>
PerformHandshakeOf(r) ==
    PerformHandshakeEnd(r, IF r.error # "" THEN r.error ELSE HandshakeError(r.ret, r.aux))
PerformHandshakeRecv == PerformHandshakeOf(recv_message(inbound, cur_message))

\* MessageAux().append_int(code).append_obj(identifier)
RequestChannelArgs(code, identifier) ==
    Aux(<<IntEntry(code), ObjEntry(StrV(identifier))>>)

\* make_channel without the lookup in self.channels
MakeChannelNoCache(identifier) ==
    /\ pc.at = "idle"
    /\ IF identifier \notin supported_identifiers
       THEN /\ result' = [NoResult EXCEPT !.op = "make_channel",
                                          !.error = "AssertionError",
                                          !.ident = identifier]
            /\ UNCHANGED <<cur_message, last_channel_code, wire, pc>>
       ELSE /\ Len(wire) < MaxSends
            /\ last_channel_code' = last_channel_code + 1
            /\ send_message(0, StrV(RequestChannelSelector),
                            RequestChannelArgs(last_channel_code + 1, identifier), TRUE)
            /\ pc' = [at |-> "make_channel", ident |-> identifier,
                      code |-> last_channel_code + 1]
            /\ result' = [NoResult EXCEPT !.op = "make_channel", !.error = "pending",
                                          !.ident = identifier]
    /\ UNCHANGED <<supported_identifiers, channels, inbound>>

\* make_channel without the assertion on supported_identifiers
MakeChannelNoAssert(identifier) ==
    /\ pc.at = "idle"
    /\ IF identifier \in DOMAIN channels
       THEN /\ result' = [NoResult EXCEPT !.op = "make_channel",
                                          !.ident = identifier,
                                          !.channel = channels[identifier]]
            /\ UNCHANGED <<cur_message, last_channel_code, wire, pc>>
       ELSE /\ Len(wire) < MaxSends
            /\ last_channel_code' = last_channel_code + 1
            /\ send_message(0, StrV(RequestChannelSelector),
                            RequestChannelArgs(last_channel_code + 1, identifier), TRUE)
            /\ pc' = [at |-> "make_channel", ident |-> identifier,
                      code |-> last_channel_code + 1]
            /\ result' = [NoResult EXCEPT !.op = "make_channel", !.error = "pending",
                                          !.ident = identifier]
    /\ UNCHANGED <<supported_identifiers, channels, inbound>>

\* make_channel up to its recv_message, or to its return when it returns
\* before: the assertion on supported_identifiers, then the cache
MakeChannel(identifier) ==
    /\ pc.at = "idle"
    /\ IF identifier \notin supported_identifiers
       THEN /\ result' = [NoResult EXCEPT !.op = "make_channel",
                                          !.error = "AssertionError",
                                          !.ident = identifier]
            /\ UNCHANGED <<cur_message, last_channel_code, wire, pc>>
       ELSE IF identifier \in DOMAIN channels
       THEN /\ result' = [NoResult EXCEPT !.op = "make_channel",
                                          !.ident = identifier,
                                          !.channel = channels[identifier]]
            /\ UNCHANGED <<cur_message, last_channel_code, wire, pc>>
       ELSE /\ Len(wire) < MaxSends
            /\ last_channel_code' = last_channel_code + 1
            /\ send_message(0, StrV(RequestChannelSelector),
                            RequestChannelArgs(last_channel_code + 1, identifier), TRUE)
            /\ pc' = [at |-> "make_channel", ident |-> identifier,
                      code |-> last_channel_code + 1]
            /\ result' = [NoResult EXCEPT !.op = "make_channel", !.error = "pending",
                                          !.ident = identifier]
    /\ UNCHANGED <<supported_identifiers, channels, inbound>>

\* make_channel that gives its code back when it fails
MakeChannelEndGivesCodeBack(r, error) ==
    /\ pc.at = "make_channel"
    /\ Consume(r)
    /\ channels' =
          IF error = ""
          THEN [x \in DOMAIN channels \cup {pc.ident} |->
                   IF x = pc.ident THEN pc.code ELSE channels[x]]
          ELSE channels
    /\ last_channel_code' = IF error = "" THEN last_channel_code ELSE last_channel_code - 1
    /\ pc' = Idle
    /\ result' = [Outcome("make_channel", r, error) EXCEPT
                     !.ident = pc.ident,
                     !.channel = IF error = "" THEN pc.code ELSE 0]
    /\ UNCHANGED <<supported_identifiers, wire>>

\* make_channel that caches the channel whatever the reply was
MakeChannelEndAlwaysCached(r, error) ==
    /\ pc.at = "make_channel"
    /\ Consume(r)
    /\ channels' = [x \in DOMAIN channels \cup {pc.ident} |->
                       IF x = pc.ident THEN pc.code ELSE channels[x]]
    /\ pc' = Idle
    /\ result' = [Outcome("make_channel", r, error) EXCEPT
                     !.ident = pc.ident,
                     !.channel = IF error = "" THEN pc.code ELSE 0]
    /\ UNCHANGED <<last_channel_code, supported_identifiers, wire>>

\* make_channel from its recv_message on: assert ret is None, then the
\* channel is created and cached
MakeChannelEnd(r, error) ==
    /\ pc.at = "make_channel"
    /\ Consume(r)
    /\ channels' =
          IF error = ""
          THEN [x \in DOMAIN channels \cup {pc.ident} |->
                   IF x = pc.ident THEN pc.code ELSE channels[x]]
          ELSE channels
    /\ pc' = Idle
    /\ result' = [Outcome("make_channel", r, error) EXCEPT
                     !.ident = pc.ident,
                     !.channel = IF error = "" THEN pc.code ELSE 0]
    /\ UNCHANGED <<last_channel_code, supported_identifiers, wire>>
MakeChannelOf(r) ==
    MakeChannelEnd(r, IF r.error # "" THEN r.error
                      ELSE IF r.ret # None THEN "AssertionError" ELSE "")
MakeChannelRecv == MakeChannelOf(recv_message(inbound, cur_message))

-----------------------------------------------------------------------------
(* The peer (the mock transport's other end).                              *)

\* the peer writes the frames of one message
PeerSend(frames, limit) ==
    /\ Len(inbound) + Len(frames) <= limit
    /\ inbound' = inbound \o frames
    /\ UNCHANGED <<cur_message, last_channel_code, supported_identifiers, channels,
                   wire, pc, result>>

\* a payload as the peer builds it: payload header, auxiliary, archive bytes
PeerPayload(flags, args, archived) ==
    LET aux == IF args.present THEN AuxBytes(args.entries) ELSE <<>>
    IN  PayloadHeaderBytes(flags, Len(aux), Len(aux) + Len(archived)) \o aux \o archived

\* one message in one frame
PeerMessage(identifier, conversationIndex, channelCode, payload) ==
    << Frame(MessageHeaderSize, 0, 1, Len(payload), identifier, conversationIndex,
             channelCode, 0, payload) >>

-----------------------------------------------------------------------------
(* Inputs.                                                                 *)

SendChannels == {0, 1}
SendSelectors == {None, StrV("runningProcesses")}
SendArgs == {NoAux, Aux(<<ObjEntry(StrV("/var")), IntEntry(7)>>)}

\* Sends only: any sequence of send_message calls on a fresh session.
NextSend ==
    \E channel \in SendChannels, selector \in SendSelectors,
       args \in SendArgs, expects_reply \in BOOLEAN :
        /\ Len(wire) < MaxSends
        /\ SendMessage(channel, selector, args, expects_reply)

SpecSend == Init /\ [][NextSend]_vars

-----------------------------------------------------------------------------
(* The session under any interleaving of the caller's methods and the      *)
(* peer's messages.                                                        *)

\* what the peer advertises in its handshake message
Capabilities == {<<DEVICEINFO_IDENTIFIER, 1>>, <<NETWORKING_IDENTIFIER, 1>>}
\* what a later handshake may advertise instead
FewerCapabilities == {<<NETWORKING_IDENTIFIER, 1>>}

\* identifiers a caller asks channels for (processcontrol is never advertised)
Identifiers == {DEVICEINFO_IDENTIFIER, NETWORKING_IDENTIFIER, PROCESS_CONTROL_IDENTIFIER}

\* identifier a peer-initiated message (conversationIndex 0) or a reply carries
PeerIdentifier == 5

CapsPayload(m) == PeerPayload(2, Aux(<<ObjEntry(DictV(m))>>), archive(StrV(NotifySelector)))
NullPayload == PeerPayload(2, NoAux, <<>>)
ListPayload == PeerPayload(2, NoAux, archive(ListV(<<"a", "b">>)))
ListOtherPayload == PeerPayload(2, NoAux, archive(ListV(<<"b">>)))
\* flags with the compression code 2
CompressedPayload == PeerPayload(2 + 2 * 4096, Aux(<<IntEntry(7)>>), archive(ListV(<<"a", "b">>)))
UnknownClassPayload == PeerPayload(2, NoAux, UnknownClassArchive)

\* messages of the peer in a session run: handshake messages (the
\* capabilities, fewer capabilities, an empty capability map, a list in
\* place of the map, no auxiliary at all, the capabilities under another
\* selector), null replies
\* (a reply, a peer-initiated message and a reply with a high identifier),
\* a list reply, a compressed payload, an archive of an unknown class
SessionPeerMessages ==
    { PeerMessage(1, 0, 0, CapsPayload(Capabilities)),
      PeerMessage(1, 0, 0, CapsPayload(FewerCapabilities)),
      PeerMessage(1, 0, 0, CapsPayload({})),
      PeerMessage(1, 0, 0, PeerPayload(2, Aux(<<ObjEntry(ListV(<<"a", "b">>))>>),
                                       archive(StrV(NotifySelector)))),
      PeerMessage(1, 0, 0, PeerPayload(2, NoAux, archive(StrV(NotifySelector)))),
      PeerMessage(1, 0, 0, PeerPayload(2, Aux(<<ObjEntry(DictV(Capabilities))>>),
                                       archive(StrV(RequestChannelSelector)))),
      PeerMessage(1, 1, 0, NullPayload),
      PeerMessage(PeerIdentifier, 0, 1, NullPayload),
      PeerMessage(PeerIdentifier, 1, 1, NullPayload),
      PeerMessage(2, 1, 1, ListPayload),
      PeerMessage(2, 1, 1, CompressedPayload),
      PeerMessage(2, 1, 1, UnknownClassPayload) }

\* send_message calls a caller makes directly on the session
SessionSends ==
    { <<1, StrV("runningProcesses"), NoAux, TRUE>>,
      <<1, StrV("stopMonitoring"), NoAux, FALSE>> }

\* The session's methods: handshake and channel creation, against the peer.
Next ==
    \/ PerformHandshake
    \/ PerformHandshakeRecv
    \/ \E identifier \in Identifiers : MakeChannel(identifier)
    \/ MakeChannelRecv
    \/ \E m \in SessionPeerMessages : PeerSend(m, MaxPending)

Spec == Init /\ [][Next]_vars

\* Any interleaving of send_message and recv_message calls with the peer.
NextSendRecv ==
    \/ \E c \in SessionSends :
          Len(wire) < MaxSends /\ SendMessage(c[1], c[2], c[3], c[4])
    \/ RecvMessage
    \/ \E m \in SessionPeerMessages : PeerSend(m, MaxPending)

SpecSendRecv == Init /\ [][NextSendRecv]_vars

-----------------------------------------------------------------------------
(* The payload codec on a loopback transport: what send_message writes is  *)
(* handed back to recv_message; the peer adds payloads whose header        *)
(* carries a compression code.                                             *)

\* the transport hands the last written frame back as the next inbound frame
Loopback ==
    /\ wire # <<>>
    /\ PeerSend(<<wire[Len(wire)]>>, MaxPending)

CodecSelectors == {None, StrV("runningProcesses")}
CodecArgs ==
    { NoAux, Aux(<<>>), Aux(<<IntEntry(7)>>),
      Aux(<<IntEntry(1), ObjEntry(StrV(DEVICEINFO_IDENTIFIER))>>),
      Aux(<<ObjEntry(DictV(Capabilities)), ObjEntry(ListV(<<"a", "b">>))>>) }

\* the peer's compressed payloads: <<compression code, auxiliary, archive>>
CompressedMessages ==
    { PeerMessage(2, 1, 1, PeerPayload(2 + c[1] * 4096, c[2], c[3])) :
        c \in { <<1, NoAux, <<>> >>,
                <<2, Aux(<<IntEntry(7)>>), archive(ListV(<<"a", "b">>))>>,
                <<255, Aux(<<IntEntry(7)>>), <<>> >> } }

NextCodec ==
    \/ \E selector \in CodecSelectors, args \in CodecArgs, expects_reply \in BOOLEAN :
          /\ Len(wire) < MaxCodecSends
          /\ SendMessage(1, selector, args, expects_reply)
    \/ Loopback
    \/ RecvMessage
    \/ \E m \in CompressedMessages : PeerSend(m, MaxPending)

SpecCodec == Init /\ [][NextCodec]_vars

-----------------------------------------------------------------------------
(* The reassembler on synthetic inbound fragments.                         *)

\* one inbound fragment; the first fragment of a message of several
\* fragments is a header alone (its length field announces the message)
Fragment(fragmentId, fragmentCount, identifier, channelCode, data) ==
    Frame(MessageHeaderSize, fragmentId, fragmentCount, Len(data), identifier, 1,
          channelCode, 0, data)

FragmentChunks == {<<7>>, <<8, 9>>}

\* frames with a malformed header: fragmentCount 0, and a header size
\* field (cb) that is not the size of the header
MalformedFrames ==
    { Frame(MessageHeaderSize, 0, 0, 1, 1, 1, 1, 0, <<7>>),
      Frame(MessageHeaderSize \div 2, 0, 1, 1, 1, 1, 1, 0, <<7>>) }

FragmentFrames ==
    MalformedFrames \cup
    \* a message in one fragment
    { Fragment(0, 1, 1, 1, d) : d \in FragmentChunks }
    \* the header-only first fragment of a message of 2 or 3 fragments
    \cup { Fragment(0, n, 1, 1, <<>>) : n \in {2, 3} }
    \* the fragments that follow it
    \cup { Fragment(p[1], p[2], 1, 1, d) :
             p \in {<<1, 2>>, <<1, 3>>, <<2, 3>>}, d \in FragmentChunks }
    \* fragments that follow it under another identifier or channel code
    \cup { Fragment(p[1], p[2], h[1], h[2], <<7>>) :
             p \in {<<1, 2>>, <<1, 3>>, <<2, 3>>}, h \in {<<2, 1>>, <<1, 2>>} }

\* the fragments are written before the reassembler is first called
PeerPrepare(f) ==
    /\ result = NoResult
    /\ PeerSend(<<f>>, MaxFrames)

NextFrag ==
    \/ \E f \in FragmentFrames : PeerPrepare(f)
    \/ RecvPacketFragments

SpecFrag == Init /\ [][NextFrag]_vars

-----------------------------------------------------------------------------
(* Two callers in send_message on one session, interleaved at every        *)
(* statement that reads or writes the session or the transport.  pc maps   *)
(* each caller to its position in send_message and its local variables:    *)
(* tmp, the counter as read by `self.cur_message += 1`; call, the          *)
(* arguments; msg, the bytes built.  Every entry of wire is what one       *)
(* sendall call handed to the transport.                                   *)

Callers == {1, 2}

NoFrame == Frame(0, 0, 0, 0, 0, 0, 0, 0, <<>>)
CallerIdle == [at |-> "idle", tmp |-> 0, call |-> <<0, None, NoAux, FALSE>>, msg |-> NoFrame]

\* __init__, and two callers that hold the session
InitConc ==
    /\ cur_message = 0
    /\ last_channel_code = 0
    /\ supported_identifiers = {}
    /\ channels = [x \in {} |-> 0]
    /\ wire = <<>>
    /\ inbound = <<>>
    /\ pc = [c \in Callers |-> CallerIdle]
    /\ result = NoResult

\* self.service.sendall(msg): the transport takes the bytes of one call whole
sendall(msg) == wire' = Append(wire, msg)

\* send_message is called: `self.cur_message += 1` reads the counter
SendLoad(c, call) ==
    /\ pc[c].at = "idle"
    /\ pc' = [pc EXCEPT ![c] = [at |-> "store", tmp |-> cur_message, call |-> call,
                                msg |-> NoFrame]]
    /\ UNCHANGED <<cur_message, last_channel_code, supported_identifiers, channels,
                   wire, inbound, result>>

\* `self.cur_message += 1` writes the counter
SendStore(c) ==
    /\ pc[c].at = "store"
    /\ cur_message' = pc[c].tmp + 1
    /\ pc' = [pc EXCEPT ![c].at = "build"]
    /\ UNCHANGED <<last_channel_code, supported_identifiers, channels, wire, inbound,
                   result>>

\* aux, sel, pheader and mheader are built (identifier=self.cur_message) and
\* joined into msg
SendBuild(c) ==
    /\ pc[c].at = "build"
    /\ pc' = [pc EXCEPT ![c].at = "write",
                        ![c].msg = SendFrame(cur_message - 1, pc[c].call[1], pc[c].call[2],
                                             pc[c].call[3], pc[c].call[4])]
    /\ UNCHANGED <<cur_message, last_channel_code, supported_identifiers, channels,
                   wire, inbound, result>>

\* send_message that writes the message header and the rest in two calls
SendWriteHeaderFirst(c) ==
    /\ pc[c].at \in {"write", "write:payload"}
    /\ IF pc[c].at = "write"
       THEN /\ sendall([pc[c].msg EXCEPT !.data = <<>>])
            /\ pc' = [pc EXCEPT ![c].at = "write:payload"]
       ELSE /\ sendall([data |-> pc[c].msg.data])
            /\ pc' = [pc EXCEPT ![c] = CallerIdle]
    /\ UNCHANGED <<cur_message, last_channel_code, supported_identifiers, channels,
                   inbound, result>>

\* self.service.sendall(msg), and send_message returns
SendWrite(c) ==
    /\ pc[c].at = "write"
    /\ sendall(pc[c].msg)
    /\ pc' = [pc EXCEPT ![c] = CallerIdle]
    /\ UNCHANGED <<cur_message, last_channel_code, supported_identifiers, channels,
                   inbound, result>>

\* what the two callers send
ConcSends ==
    { <<1, StrV("runningProcesses"), NoAux, TRUE>>,
      <<2, StrV("stopMonitoring"), Aux(<<IntEntry(7)>>), FALSE>> }

\* calls of send_message begun and not yet returned
Sending == {c \in Callers : pc[c].at # "idle"}

NextConc ==
    \E c \in Callers :
        \/ \E call \in ConcSends :
              /\ Len(wire) + Cardinality(Sending) < MaxConcSends
              /\ SendLoad(c, call)
        \/ SendStore(c)
        \/ SendBuild(c)
        \/ SendWrite(c)

SpecConc == InitConc /\ [][NextConc]_vars

-----------------------------------------------------------------------------
(* Whole messages, some of them in several fragments, read by              *)
(* recv_message.                                                           *)

\* a message in two fragments: the bare header, then the payload
InTwo(identifier, conversationIndex, channelCode, payload) ==
    << Frame(MessageHeaderSize, 0, 2, Len(payload), identifier, conversationIndex,
             channelCode, 0, <<>>),
       Frame(MessageHeaderSize, 1, 2, Len(payload), identifier, conversationIndex,
             channelCode, 0, payload) >>

\* a message in three fragments: the bare header, then the payload cut
\* after its first cut bytes
InThree(identifier, conversationIndex, channelCode, payload, cut) ==
    << Frame(MessageHeaderSize, 0, 3, Len(payload), identifier, conversationIndex,
             channelCode, 0, <<>>),
       Frame(MessageHeaderSize, 1, 3, cut, identifier, conversationIndex,
             channelCode, 0, SubSeq(payload, 1, cut)),
       Frame(MessageHeaderSize, 2, 3, Len(payload) - cut, identifier, conversationIndex,
             channelCode, 0, SubSeq(payload, cut + 1, Len(payload))) >>

\* the compressed message in three fragments, cut inside its payload header
CompressedInThree == InThree(2, 1, 1, CompressedPayload, PayloadHeaderSize \div 2)
\* a list reply in two fragments
ListInTwo == InTwo(3, 1, 1, ListPayload)

StreamPeerMessages ==
    { PeerMessage(2, 1, 1, CompressedPayload),
      CompressedInThree,
      ListInTwo,
      PeerMessage(4, 0, 2, ListOtherPayload),
      PeerMessage(3, 1, 1, NullPayload) }

NextStream ==
    \/ \E m \in StreamPeerMessages : PeerSend(m, MaxStreamFrames)
    \/ RecvMessage

SpecStream == Init /\ [][NextStream]_vars

-----------------------------------------------------------------------------
(* The channel proxy.  A Channel is an int, its channel code, with a       *)
(* reference to the session; an attribute it does not have is looked up    *)
(* by __getattr__, which returns send_message bound to the proxy and the   *)
(* sanitized name.                                                         *)

\* getattr(channel, item)(args, expects_reply=...)
ChannelGetattr(channel, item, args, expects_reply) ==
    /\ pc.at = "idle"
    /\ send_message(channel, StrV(Join(_sanitize_name(item))), args, expects_reply)
    /\ result' = [NoResult EXCEPT !.op = "__getattr__", !.ident = Join(item),
                                  !.channel = channel]
    /\ UNCHANGED <<last_channel_code, supported_identifiers, channels, inbound, pc>>

\* channel codes of the proxies (Channel.create(value, service))
ProxyChannels == {1, 2}

NextProxy ==
    \E channel \in ProxyChannels, item \in ProxyNames, expects_reply \in BOOLEAN :
        /\ Len(wire) < MaxProxySends
        /\ ChannelGetattr(channel, item, NoAux, expects_reply)

SpecProxy == Init /\ [][NextProxy]_vars

-----------------------------------------------------------------------------
(* Bindings: methods that take a channel from make_channel, send one       *)
(* message on it and read messages.  While make_channel inside a binding   *)
(* waits for its reply pc.at is the binding's name followed by             *)
(* ":make_channel"; pc.code is the channel code the binding uses.          *)

\* a binding from its call to its first recv_message: make_channel (the
\* assertion, the cache, or the request for a new channel), and when the
\* channel is cached the binding's own message
BindingCall(op, identifier, selector, args, expects_reply, limit) ==
    /\ pc.at = "idle"
    /\ IF identifier \notin supported_identifiers
       THEN /\ result' = [NoResult EXCEPT !.op = op, !.error = "AssertionError",
                                          !.ident = identifier]
            /\ UNCHANGED <<cur_message, last_channel_code, wire, pc>>
       ELSE IF identifier \in DOMAIN channels
       THEN /\ Len(wire) < limit
            /\ send_message(channels[identifier], selector, args, expects_reply)
            /\ pc' = [at |-> op, ident |-> identifier, code |-> channels[identifier]]
            /\ result' = [NoResult EXCEPT !.op = op, !.error = "pending",
                                          !.ident = identifier,
                                          !.channel = channels[identifier]]
            /\ UNCHANGED last_channel_code
       ELSE /\ Len(wire) < limit
            /\ last_channel_code' = last_channel_code + 1
            /\ send_message(0, StrV(RequestChannelSelector),
                            RequestChannelArgs(last_channel_code + 1, identifier), TRUE)
            /\ pc' = [at |-> op \o ":make_channel", ident |-> identifier,
                      code |-> last_channel_code + 1]
            /\ result' = [NoResult EXCEPT !.op = op, !.error = "pending",
                                          !.ident = identifier]
    /\ UNCHANGED <<supported_identifiers, channels, inbound>>

\* a binding from the recv_message of its make_channel on: the assertion on
\* the reply, the channel cached, then the binding's own message sent on it
BindingChannelEnd(op, selector, args, expects_reply, limit, r, error) ==
    /\ pc.at = op \o ":make_channel"
    /\ r.done
    /\ inbound' = SubSeq(inbound, r.n + 1, Len(inbound))
    /\ IF error # ""
       THEN /\ cur_message' = r.cur
            /\ pc' = Idle
            /\ result' = [Outcome(op, r, error) EXCEPT !.ident = pc.ident]
            /\ UNCHANGED <<channels, wire>>
       ELSE /\ Len(wire) < limit
            /\ channels' = [x \in DOMAIN channels \cup {pc.ident} |->
                               IF x = pc.ident THEN pc.code ELSE channels[x]]
            /\ cur_message' = r.cur + 1
            /\ wire' = Append(wire, SendFrame(r.cur, pc.code, selector, args, expects_reply))
            /\ pc' = [pc EXCEPT !.at = op]
            /\ result' = [Outcome(op, r, "pending") EXCEPT !.ident = pc.ident,
                                                           !.channel = pc.code]
    /\ UNCHANGED <<last_channel_code, supported_identifiers>>
BindingChannelOf(op, selector, args, expects_reply, limit, r) ==
    BindingChannelEnd(op, selector, args, expects_reply, limit, r,
                      IF r.error # "" THEN r.error
                      ELSE IF r.ret # None THEN "AssertionError" ELSE "")

-----------------------------------------------------------------------------
(* ls.                                                                     *)

\* MessageAux().append_obj(path)
LsArgs(path) == Aux(<<ObjEntry(StrV(path))>>)

\* ls up to its recv_message (or to the recv_message of its make_channel)
Ls(path) ==
    BindingCall("ls", DEVICEINFO_IDENTIFIER, StrV("directoryListingForPath:"),
                LsArgs(path), TRUE, MaxLsSends)

\* ls from the reply of its make_channel to its own recv_message
LsMakeChannelOf(path, r) ==
    BindingChannelOf("ls", StrV("directoryListingForPath:"), LsArgs(path), TRUE,
                     MaxLsSends, r)
LsMakeChannelRecv(path) == LsMakeChannelOf(path, recv_message(inbound, cur_message))

\* ls from its recv_message on: a null return raises DvtDirListError
LsEnd(r, error) ==
    /\ pc.at = "ls"
    /\ Consume(r)
    /\ pc' = Idle
    /\ result' = [Outcome("ls", r, error) EXCEPT !.ident = pc.ident, !.channel = pc.code]
    /\ UNCHANGED <<last_channel_code, supported_identifiers, channels, wire>>
\* ls that hands a null return to its caller
LsOfNullReturned(r) == LsEnd(r, r.error)
\* ls that drops a message of another channel and goes on waiting
LsOfOwnChannelOnly(r) ==
    IF r.done /\ Head(inbound).channelCode # pc.code
    THEN /\ pc.at = "ls"
         /\ Consume(r)
         /\ UNCHANGED <<last_channel_code, supported_identifiers, channels, wire, pc, result>>
    ELSE LsEnd(r, IF r.error # "" THEN r.error
                  ELSE IF r.ret = None THEN "DvtDirListError" ELSE "")

LsOf(r) ==
    LsEnd(r, IF r.error # "" THEN r.error
             ELSE IF r.ret = None THEN "DvtDirListError" ELSE "")
LsRecv == LsOf(recv_message(inbound, cur_message))

LsPaths == {"/var"}

\* messages of the peer in a run of ls: the capabilities, a null reply, two
\* list replies, and an unsolicited list on another channel
LsPeerMessages ==
    { PeerMessage(1, 0, 0, CapsPayload(Capabilities)),
      PeerMessage(2, 1, 0, NullPayload),
      PeerMessage(3, 1, 1, ListPayload),
      PeerMessage(3, 1, 1, ListOtherPayload),
      PeerMessage(PeerIdentifier, 0, 2, ListOtherPayload) }

NextLs ==
    \/ PerformHandshake
    \/ PerformHandshakeRecv
    \/ \E path \in LsPaths : Ls(path)
    \/ \E path \in LsPaths : LsMakeChannelRecv(path)
    \/ LsRecv
    \/ \E m \in LsPeerMessages : PeerSend(m, MaxPending)

SpecLs == Init /\ [][NextLs]_vars

\* messages of a peer that writes ahead of the caller: the capabilities, a
\* null reply, a list reply, and an unsolicited list on another channel in
\* two fragments
FifoPeerMessages ==
    { PeerMessage(1, 0, 0, CapsPayload(Capabilities)),
      PeerMessage(2, 1, 0, NullPayload),
      PeerMessage(3, 1, 1, ListPayload),
      InTwo(PeerIdentifier, 0, 2, ListOtherPayload) }

\* ls, the handshake and recv_message against a peer whose messages queue up
NextFifo ==
    \/ Len(wire) < MaxFifoSends /\ PerformHandshake
    \/ PerformHandshakeRecv
    \/ \E path \in LsPaths : Len(wire) < MaxFifoSends /\ Ls(path)
    \/ \E path \in LsPaths : Len(wire) < MaxFifoSends /\ LsMakeChannelRecv(path)
    \/ LsRecv
    \/ RecvMessage
    \/ \E m \in FifoPeerMessages : PeerSend(m, MaxFifoFrames)

SpecFifo == Init /\ [][NextFifo]_vars

-----------------------------------------------------------------------------
(* network_monitor, a generator.  Its consumer starts it (the first        *)
(* next()), and when it is suspended at its yield either resumes it        *)
(* (next()) or closes it (close(), which raises GeneratorExit at the       *)
(* yield).  pc.at is "network_monitor" while it waits in recv_message and  *)
(* "network_monitor:yield" while it is suspended with an event yielded.    *)

\* Channel.__getattr__ for a name without underscores, called with the
\* keyword arguments given: channel.startMonitoring(expects_reply=False)
\* and channel.stopMonitoring(), where send_message's default applies
StartMonitoringExpectsReply == FALSE
StopMonitoringExpectsReply == TRUE

\* the first next(): make_channel, startMonitoring, up to a recv_message
NetworkMonitor ==
    BindingCall("network_monitor", NETWORKING_IDENTIFIER, StrV("startMonitoring"),
                NoAux, StartMonitoringExpectsReply, MaxMonitorSends)

NetworkMonitorMakeChannelOf(r) ==
    BindingChannelOf("network_monitor", StrV("startMonitoring"), NoAux,
                     StartMonitoringExpectsReply, MaxMonitorSends, r)
NetworkMonitorMakeChannelRecv ==
    NetworkMonitorMakeChannelOf(recv_message(inbound, cur_message))

\* message, _ = self.recv_message(): an exception ends the generator, a
\* null message is skipped, any other message is yielded as an event
NetworkMonitorOf(r) ==
    /\ pc.at = "network_monitor"
    /\ Consume(r)
    /\ pc' = IF r.error # "" THEN Idle
             ELSE IF r.ret = None THEN pc
             ELSE [pc EXCEPT !.at = "network_monitor:yield"]
    /\ result' = [Outcome("network_monitor", r,
                          IF r.error # "" THEN r.error
                          ELSE IF r.ret = None THEN "pending" ELSE "")
                     EXCEPT !.ident = pc.ident, !.channel = pc.code]
    /\ UNCHANGED <<last_channel_code, supported_identifiers, channels, wire>>
NetworkMonitorRecv == NetworkMonitorOf(recv_message(inbound, cur_message))

\* the consumer resumes the generator and nothing is sent: stopMonitoring
\* left to close() alone
NetworkMonitorNextNoStop ==
    /\ pc.at = "network_monitor:yield"
    /\ pc' = [pc EXCEPT !.at = "network_monitor"]
    /\ result' = [NoResult EXCEPT !.op = "network_monitor", !.error = "pending",
                                  !.ident = pc.ident, !.channel = pc.code]
    /\ UNCHANGED <<cur_message, wire, last_channel_code, supported_identifiers,
                   channels, inbound>>

\* the consumer resumes the generator: the finally clause of the yield
\* sends stopMonitoring, and the loop goes back to recv_message
NetworkMonitorNext ==
    /\ pc.at = "network_monitor:yield"
    /\ Len(wire) < MaxMonitorSends
    /\ send_message(pc.code, StrV("stopMonitoring"), NoAux, StopMonitoringExpectsReply)
    /\ pc' = [pc EXCEPT !.at = "network_monitor"]
    /\ result' = [NoResult EXCEPT !.op = "network_monitor", !.error = "pending",
                                  !.ident = pc.ident, !.channel = pc.code]
    /\ UNCHANGED <<last_channel_code, supported_identifiers, channels, inbound>>

\* the consumer closes the generator: GeneratorExit is raised at the yield,
\* the finally clause sends stopMonitoring, and the generator ends
NetworkMonitorClose ==
    /\ pc.at = "network_monitor:yield"
    /\ Len(wire) < MaxMonitorSends
    /\ send_message(pc.code, StrV("stopMonitoring"), NoAux, StopMonitoringExpectsReply)
    /\ pc' = Idle
    /\ result' = [NoResult EXCEPT !.op = "network_monitor:close",
                                  !.ident = pc.ident, !.channel = pc.code]
    /\ UNCHANGED <<last_channel_code, supported_identifiers, channels, inbound>>

\* messages of the peer in a run of network_monitor: the capabilities, a
\* null message, an event
MonitorPeerMessages ==
    { PeerMessage(1, 0, 0, CapsPayload(Capabilities)),
      PeerMessage(2, 1, 0, NullPayload),
      PeerMessage(3, 0, 1, ListPayload) }

NextMonitor ==
    \/ PerformHandshake
    \/ PerformHandshakeRecv
    \/ NetworkMonitor
    \/ NetworkMonitorMakeChannelRecv
    \/ NetworkMonitorRecv
    \/ NetworkMonitorNext
    \/ NetworkMonitorClose
    \/ \E m \in MonitorPeerMessages : PeerSend(m, MaxPending)

SpecMonitor == Init /\ [][NextMonitor]_vars

\* ---------------------------------------------------------------------
\* Properties

\* the newest frame on the outbound wire
LastSent(w) == w[Len(w)]

\* the flags word of a payload, as its first four bytes little-endian
FlagsOf(packet) == FromLE(Slice(packet, 1, 4))

\* C1: on a fresh session with no receive in between, the k-th
\* send_message puts identifier k on the wire, whatever the channel, the
\* selector, the arguments and expects_reply are.
C1_SendIdentifiers ==
    \A k \in 1..Len(wire) : wire[k].identifier = k

C1_Witness ==
    /\ Len(wire) >= 3
    /\ wire[1].expectsReply # wire[2].expectsReply
    /\ wire[2].channelCode # wire[3].channelCode
    /\ wire[3].identifier = 3

\* C2 as stated: a frame sent after a receive carries an identifier greater
\* than the identifier of every frame that receive observed.
C2_AboveEveryObserved ==
    [][(Len(wire') > Len(wire))
         => \A i \in 1..Len(result.frames) :
               result.frames[i].identifier < LastSent(wire').identifier]_vars

\* C2: the identifiers of sent frames are strictly increasing and at least
\* 1; the counter never decreases; it is at least the identifier of every
\* frame observed with conversation index 0, so that the next frame sent
\* is above all of those; and the first frame of a session whose counter
\* has not been raised carries 1.
C2_IdentifiersIncrease ==
    [][/\ cur_message' >= cur_message
       /\ \A i \in 1..Len(result'.frames) :
             result'.frames[i].conversationIndex = 0
                => result'.frames[i].identifier <= cur_message'
       /\ (Len(wire') > Len(wire))
             => /\ Len(wire') = Len(wire) + 1
                /\ LastSent(wire').identifier = cur_message'
                /\ LastSent(wire').identifier > cur_message
                /\ LastSent(wire').identifier >= 1
                /\ (cur_message = 0 => LastSent(wire').identifier = 1)
                /\ \A k \in 1..Len(wire) :
                      wire[k].identifier < LastSent(wire').identifier
                /\ \A i \in 1..Len(result.frames) :
                      result.frames[i].conversationIndex = 0
                         => result.frames[i].identifier < LastSent(wire').identifier]_vars

C2_Witness ==
    /\ Len(wire) >= 2
    /\ wire[1].identifier = 1
    /\ wire[2].identifier = PeerIdentifier + 1

\* fragments 0..n-1 of a message of n fragments, in order, the first of
\* several being a bare header
WellFormed(frames) ==
    /\ Len(frames) >= 1
    /\ Len(frames) > 1 => frames[1].data = <<>>
    /\ \A i \in 1..Len(frames) :
          /\ frames[i].fragmentCount = Len(frames)
          /\ frames[i].fragmentId = i - 1

\* the bytes of frames[i], frames[i+1], ... in order
RECURSIVE ConcatFrom(_, _)
ConcatFrom(frames, i) ==
    IF i > Len(frames) THEN <<>> ELSE frames[i].data \o ConcatFrom(frames, i + 1)

\* C3 as stated: for fragments 0..n-1 of a message, n >= 1, the packet is
\* the concatenation of the bytes of fragments 1..n-1.
C3_SkipsFragmentZero ==
    (result.op = "_recv_packet_fragments" /\ WellFormed(result.frames))
       => result.packet = ConcatFrom(result.frames, 2)

\* C3: when the unread frames begin with fragments 0..n-1 of a message,
\* one call reads exactly those n frames and returns, for n >= 2, the
\* bytes of fragments 1..n-1 in order and nothing of fragment 0; for
\* n = 1 it returns the bytes of that only fragment.
C3_Reassembly ==
    [][\A n \in 1..Len(inbound) :
          (/\ WellFormed(SubSeq(inbound, 1, n))
           /\ Len(inbound') < Len(inbound)
           /\ result'.op = "_recv_packet_fragments")
             => /\ result'.frames = SubSeq(inbound, 1, n)
                /\ inbound' = SubSeq(inbound, n + 1, Len(inbound))
                /\ result'.packet = IF n = 1 THEN inbound[1].data
                                    ELSE ConcatFrom(SubSeq(inbound, 1, n), 2)]_vars

C3_Witness ==
    /\ result.op = "_recv_packet_fragments"
    /\ Len(result.frames) = 3
    /\ WellFormed(result.frames)
    /\ result.frames[2].data # result.frames[3].data
    /\ result.packet = result.frames[2].data \o result.frames[3].data

\* C4: a payload built by send_message from (selector, args) and decoded
\* by recv_message yields the selector and the arguments, in order and
\* with their types.
C4_RoundTrip ==
    \A selector \in CodecSelectors, args \in CodecArgs, expects_reply \in BOOLEAN :
       (/\ result.op = "recv_message"
        /\ Len(result.frames) = 1
        /\ result.frames[1].data = SendPayload(selector, args, expects_reply))
          => /\ result.error = ""
             /\ result.ret = selector
             /\ result.aux = args

\* C5: a payload whose flags have a compression bit set is rejected as
\* not implemented, before anything after the payload header is read:
\* no return value, no auxiliary, the read position right after the header.
C5_CompressedRejected ==
    (/\ result.op = "recv_message"
     /\ Len(result.packet) >= PayloadHeaderSize
     /\ (FlagsOf(result.packet) \div 4096) % 256 # 0)
       => /\ result.error = "NotImplementedError"
          /\ result.ret = None
          /\ result.aux = NoAux
          /\ result.pos = PayloadHeaderSize

C5_Witness ==
    /\ result.op = "recv_message"
    /\ result.error = "NotImplementedError"
    /\ Len(result.packet) > PayloadHeaderSize
    /\ (FlagsOf(result.packet) \div 4096) % 256 = 2

\* C6 as stated (last part): the first successful make_channel returns code 1.
C6_FirstChannelCodeOne ==
    (/\ result.op = "make_channel"
     /\ result.error = ""
     /\ DOMAIN channels = {result.ident})
       => result.channel = 1

\* C6: make_channel for an advertised identifier that has a channel
\* returns that channel's code without sending and without taking a code; a channel
\* that is created gets the code its call took from the counter (1 for
\* the first call that takes one), and a channel never changes its code.
C6_ChannelCache ==
    [][/\ (/\ pc.at = "idle"
           /\ inbound' = inbound
           /\ result'.op = "make_channel"
           /\ result'.ident \in supported_identifiers
           /\ result'.ident \in DOMAIN channels)
             => /\ result'.error = ""
                /\ result'.channel = channels[result'.ident]
                /\ UNCHANGED <<wire, cur_message, last_channel_code, channels, pc>>
       /\ (pc.at = "idle" /\ pc'.at = "make_channel")
             => /\ pc'.ident \notin DOMAIN channels
                /\ pc'.code = last_channel_code + 1
                /\ last_channel_code' = pc'.code
                /\ pc'.code >= 1
                /\ (last_channel_code = 0 => pc'.code = 1)
       /\ (pc.at = "make_channel" /\ pc'.at = "idle" /\ result'.error = "")
             => /\ result'.channel = pc.code
                /\ DOMAIN channels' = DOMAIN channels \cup {pc.ident}
                /\ channels'[pc.ident] = pc.code
       /\ \A id \in DOMAIN channels :
             id \in DOMAIN channels' /\ channels'[id] = channels[id]]_vars

C6_Witness ==
    /\ result.op = "make_channel"
    /\ result.error = ""
    /\ result.frames = <<>>
    /\ result.ident \in DOMAIN channels
    /\ result.ident \in supported_identifiers
    /\ result.channel = channels[result.ident]
    /\ Len(wire) = 2

\* C7: make_channel for an identifier the handshake did not advertise
\* fails its assertion before anything is sent or allocated: the wire, the
\* counters, the channels and the capabilities are as before.
C7_NotAdvertised ==
    [][(/\ pc.at = "idle"
        /\ inbound' = inbound
        /\ result'.op = "make_channel"
        /\ result'.ident \notin supported_identifiers)
          => /\ result'.error = "AssertionError"
             /\ UNCHANGED <<wire, cur_message, last_channel_code, channels,
                            supported_identifiers, pc>>]_vars

C7_Witness ==
    /\ result.op = "make_channel"
    /\ result.error = "AssertionError"
    /\ result.frames = <<>>
    /\ result.ident \notin supported_identifiers
    /\ supported_identifiers # {}
    /\ DOMAIN channels # {}

\* the reply perform_handshake accepts
HandshakeAccepts(r) ==
    /\ r.ret = StrV(NotifySelector)
    /\ r.aux.present
    /\ r.aux.entries # <<>>
    /\ r.aux.entries[1].value.t = "dict"
    /\ r.aux.entries[1].value.map # {}

ProtocolAssertion ==
    \/ result.op = "perform_handshake" /\ result.error = "ValueError"
    \/ result.op = "make_channel" /\ result.error = "AssertionError" /\ result.frames # <<>>
    \/ result.error = "MissingClassMapping"

\* C9: after a protocol assertion the transport is closed: nothing more is
\* written to it and nothing more is read from it.
C9_AssertionClosesTransport ==
    [][ProtocolAssertion => (wire' = wire /\ Len(inbound') >= Len(inbound))]_vars

\* some fragment read differs from the first one read in identifier or channel
Mismatch(frames) ==
    \E i \in 2..Len(frames) :
       \/ frames[i].identifier # frames[1].identifier
       \/ frames[i].channelCode # frames[1].channelCode

\* C10: fragments of one reassembly that differ in identifier or channel
\* code are a fatal protocol error, and no packet is returned.
C10_MismatchIsFatal ==
    (result.op = "_recv_packet_fragments" /\ Mismatch(result.frames))
       => (result.error # "" /\ result.packet = <<>>)

\* some frame read has fragmentCount 0 or a header size field that is not 32
Malformed(frames) ==
    \E i \in 1..Len(frames) :
       frames[i].fragmentCount = 0 \/ frames[i].cb # MessageHeaderSize

\* C11: a frame whose header has fragmentCount 0 or a header size field
\* other than 32 ends the receive in a fatal error: no packet is returned
\* for it and no frame after it is read and appended.
C11_MalformedHeaderIsFatal ==
    (result.op = "_recv_packet_fragments" /\ Malformed(result.frames))
       => /\ result.error # ""
          /\ result.packet = <<>>
          /\ Malformed(<<result.frames[Len(result.frames)]>>)

\* the selector a frame carries, as the peer reads it: the archive after
\* the payload header and the auxiliary
SelectorOf(frame) ==
    unarchive(Slice(frame.data, PayloadHeaderSize + FromLE(Slice(frame.data, 5, 8)) + 1,
                    Len(frame.data))).value

\* the channel the newest startMonitoring on the wire w was sent on (0 if none)
RECURSIVE MonitoredChannel(_)
MonitoredChannel(w) ==
    IF w = <<>> THEN 0
    ELSE IF SelectorOf(LastSent(w)) = StrV("startMonitoring") THEN LastSent(w).channelCode
    ELSE MonitoredChannel(SubSeq(w, 1, Len(w) - 1))

\* C12: startMonitoring is sent with expects_reply false before the
\* stream's first recv_message, and closing the stream sends stopMonitoring
\* with expects_reply false on the channel startMonitoring was sent on.
C12_StopMonitoringNoReply ==
    [][/\ (Len(wire') > Len(wire) /\ SelectorOf(LastSent(wire')) = StrV("startMonitoring"))
             => /\ LastSent(wire').expectsReply = 0
                /\ FlagsOf(LastSent(wire').data) = INSTRUMENTS_MESSAGE_TYPE
                /\ pc'.at = "network_monitor"
       /\ (pc.at = "network_monitor:yield" /\ pc'.at = "idle")
             => /\ Len(wire') = Len(wire) + 1
                /\ SelectorOf(LastSent(wire')) = StrV("stopMonitoring")
                /\ LastSent(wire').channelCode = MonitoredChannel(wire)
                /\ LastSent(wire').expectsReply = 0
                /\ FlagsOf(LastSent(wire').data) = INSTRUMENTS_MESSAGE_TYPE]_vars

\* C18: stopMonitoring is sent in the cleanup of every yielded event: when
\* the consumer resumes the stream after an event, the first thing that
\* happens is one stopMonitoring sent on the stream's channel, before any
\* recv_message; so it is sent after the first consumed event and after
\* every later one, not only when the consumer closes the stream.
C18_StopAfterEveryEvent ==
    [][(pc.at = "network_monitor:yield")
          => /\ Len(inbound') >= Len(inbound)
             /\ (pc' # pc)
                   => /\ Len(wire') = Len(wire) + 1
                      /\ SelectorOf(LastSent(wire')) = StrV("stopMonitoring")
                      /\ LastSent(wire').channelCode = pc.code
                      /\ LastSent(wire').channelCode = MonitoredChannel(wire)
                      /\ inbound' = inbound]_vars

C18_Witness ==
    /\ pc.at = "network_monitor:yield"
    /\ Len(wire) >= 2
    /\ SelectorOf(LastSent(wire)) = StrV("stopMonitoring")
    /\ SelectorOf(wire[Len(wire) - 1]) = StrV("startMonitoring")
    /\ result.ret # None

\* C13: ls reads exactly one message as its reply; a null return value
\* raises DvtDirListError, a list is returned as it is; either way the
\* channels, the capabilities and the channel code counter are untouched
\* and the message counter moves only as the reply's header says, so the
\* session is as after a successful ls; and an ls called after the error
\* sends its request on the cached channel like any other.
C13_LsNullReturn ==
    [][/\ (pc.at = "ls" /\ pc'.at = "idle")
             => /\ result'.op = "ls"
                /\ result'.frames = <<inbound[1]>>
                /\ inbound' = Tail(inbound)
                /\ UNCHANGED <<channels, supported_identifiers, last_channel_code, wire>>
                /\ cur_message' = IF inbound[1].conversationIndex = 0
                                     /\ inbound[1].identifier > cur_message
                                  THEN inbound[1].identifier ELSE cur_message
                /\ (inbound[1].data = NullPayload)
                      => result'.error = "DvtDirListError"
                /\ (inbound[1].data = ListPayload)
                      => result'.error = "" /\ result'.ret = ListV(<<"a", "b">>)
                /\ (inbound[1].data = ListOtherPayload)
                      => result'.error = "" /\ result'.ret = ListV(<<"b">>)
       /\ (/\ result.op = "ls" /\ result.error = "DvtDirListError"
           /\ pc.at = "idle" /\ result'.op = "ls" /\ inbound' = inbound)
             => /\ pc'.at = "ls"
                /\ pc'.code = channels[DEVICEINFO_IDENTIFIER]
                /\ Len(wire') = Len(wire) + 1
                /\ LastSent(wire').channelCode = channels[DEVICEINFO_IDENTIFIER]
                /\ SelectorOf(LastSent(wire')) = StrV("directoryListingForPath:")
                /\ UNCHANGED <<channels, supported_identifiers, last_channel_code>>]_vars

C13_Witness ==
    /\ result.op = "ls"
    /\ result.error = "DvtDirListError"
    /\ result.ret = None
    /\ pc.at = "idle"
    /\ DEVICEINFO_IDENTIFIER \in DOMAIN channels
    /\ inbound = <<>>

\* a name with every underscore but a leading one turned into a colon
Colons(name) ==
    [i \in 1..Len(name) |-> IF name[i] = "_" /\ i > 1 THEN ":" ELSE name[i]]

\* C14: invoking a name on a channel proxy sends, on the proxy's channel
\* code, the selector that is the name with a leading underscore kept and
\* every other underscore replaced by a colon, nothing else changed.
C14_Sanitize ==
    /\ Join(_sanitize_name(<<"k", "i", "l", "l", "P", "i", "d", "_">>)) = "killPid:"
    /\ \A name \in ProxyNames :
          (result.op = "__getattr__" /\ result.ident = Join(name))
             => /\ SelectorOf(LastSent(wire)) = StrV(Join(Colons(name)))
                /\ Len(Join(Colons(name))) = Len(Join(name))
                /\ LastSent(wire).channelCode = result.channel
                /\ (result.ident = "foo_bar_baz_"
                       => SelectorOf(LastSent(wire)) = StrV("foo:bar:baz:"))
                /\ (result.ident = "_notifyOfPublishedCapabilities_"
                       => SelectorOf(LastSent(wire)) = StrV(NotifySelector))

C14_Witness ==
    /\ result.op = "__getattr__"
    /\ result.ident = "_a_"
    /\ SelectorOf(LastSent(wire)) = StrV("_a:")
    /\ LastSent(wire).channelCode = 2

\* the auxiliary entries of a frame the session sent
AuxOf(frame) == ParseAux(frame.data, PayloadHeaderSize).entries

\* C15: a make_channel that misses the cache takes the code one above the
\* channel code counter (1 on a fresh session, above every cached code),
\* sends one frame on channel 0 with the request selector, the auxiliary
\* (INT64 code, OBJECT identifier) and expects_reply set, and then reads
\* exactly one message; an identifier enters the channel table only at the
\* end of such a call whose message had a null return value, and a
\* non-null return value fails the call and leaves the identifier out.
C15_ChannelCreation ==
    [][/\ (pc.at = "idle" /\ pc'.at = "make_channel")
             => /\ pc'.ident \in supported_identifiers
                /\ pc'.ident \notin DOMAIN channels
                /\ pc'.code = last_channel_code + 1
                /\ last_channel_code' = pc'.code
                /\ last_channel_code = 0 => pc'.code = 1
                /\ \A x \in DOMAIN channels : channels[x] < pc'.code
                /\ Len(wire') = Len(wire) + 1
                /\ SubSeq(wire', 1, Len(wire)) = wire
                /\ LastSent(wire').channelCode = 0
                /\ LastSent(wire').expectsReply = 1
                /\ SelectorOf(LastSent(wire')) = StrV(RequestChannelSelector)
                /\ AuxOf(LastSent(wire')) =
                      <<[type |-> 4, value |-> IntV(pc'.code)],
                        [type |-> 2, value |-> StrV(pc'.ident)]>>
                /\ UNCHANGED <<channels, inbound, supported_identifiers>>
       /\ (pc.at = "make_channel" /\ pc' # pc)
             => /\ inbound # <<>>
                /\ inbound' = Tail(inbound)
                /\ pc'.at = "idle"
                /\ result'.op = "make_channel"
                /\ result'.frames = <<Head(inbound)>>
                /\ UNCHANGED <<wire, last_channel_code, supported_identifiers>>
                /\ result'.ret # None
                      => /\ result'.error = "AssertionError"
                         /\ pc.ident \notin DOMAIN channels'
                /\ Head(inbound).data = ListPayload => result'.ret = ListV(<<"a", "b">>)
                /\ (Head(inbound).data = NullPayload)
                      => /\ result'.error = ""
                         /\ pc.ident \in DOMAIN channels'
       /\ (pc.at = "make_channel" /\ pc' = pc) => UNCHANGED <<wire, channels>>
       /\ \A x \in Identifiers :
             (x \notin DOMAIN channels /\ x \in DOMAIN channels')
                => /\ pc.at = "make_channel"
                   /\ pc.ident = x
                   /\ channels'[x] = pc.code
                   /\ \A y \in DOMAIN channels : channels'[y] = channels[y]
                   /\ SelectorOf(LastSent(wire)) = StrV(RequestChannelSelector)
                   /\ AuxOf(LastSent(wire)) =
                         <<[type |-> 4, value |-> IntV(pc.code)],
                           [type |-> 2, value |-> StrV(x)]>>
                   /\ Head(inbound).data = NullPayload
                   /\ result'.ret = None
                   /\ result'.error = ""
       /\ DOMAIN channels \subseteq DOMAIN channels'
       /\ DOMAIN channels' \subseteq Identifiers]_vars

C15_Witness ==
    /\ result.op = "make_channel"
    /\ result.error = "AssertionError"
    /\ result.ret = ListV(<<"a", "b">>)
    /\ result.ident \notin DOMAIN channels
    /\ DOMAIN channels # {}
    /\ last_channel_code = 2

\* every cached code is one the counter has given out, and no two
\* identifiers share a code
CodesDistinct ==
    /\ \A x \in DOMAIN channels : channels[x] \in 1..last_channel_code
    /\ \A x, y \in DOMAIN channels : channels[x] = channels[y] => x = y

\* C19 as stated: in every reachable state every identifier of the channel
\* table is in supported_identifiers, every cached code lies in
\* 1..last_channel_code, no two identifiers share a code, and
\* last_channel_code never decreases.
C19_TableWithinSupported ==
    /\ [](DOMAIN channels \subseteq supported_identifiers /\ CodesDistinct)
    /\ [][last_channel_code' >= last_channel_code]_vars

\* C19: an identifier is in supported_identifiers when it enters the
\* channel table and stays in it while supported_identifiers is not
\* replaced; every cached code lies in 1..last_channel_code, no two
\* identifiers share a code, a new channel gets the newest code, which no
\* earlier call was given, and last_channel_code never decreases.
C19_ChannelTable ==
    /\ []CodesDistinct
    /\ [][/\ last_channel_code' >= last_channel_code
          /\ \A x \in DOMAIN channels' \ DOMAIN channels :
                /\ x \in supported_identifiers
                /\ supported_identifiers' = supported_identifiers
                /\ channels'[x] = last_channel_code
                /\ last_channel_code' = last_channel_code
          /\ (/\ supported_identifiers' = supported_identifiers
              /\ DOMAIN channels \subseteq supported_identifiers)
                => DOMAIN channels' \subseteq supported_identifiers'
          /\ supported_identifiers' # supported_identifiers
                => /\ pc.at = "perform_handshake"
                   /\ result'.error = ""
                   /\ channels' = channels
          /\ \A x \in DOMAIN channels :
                x \in DOMAIN channels' /\ channels'[x] = channels[x]]_vars

C19_Witness ==
    /\ result.op = "make_channel"
    /\ result.error = ""
    /\ result.frames # <<>>
    /\ channels[result.ident] = 2
    /\ last_channel_code = 2
    /\ Cardinality(DOMAIN channels) = 1
    /\ DOMAIN channels \subseteq supported_identifiers

\* the number of frames of the logical message at the head of q
HeadFrames(q) == IF Head(q).fragmentCount > 1 THEN Head(q).fragmentCount ELSE 1

\* q starts with the frames m
StartsWith(q, m) == Len(q) >= Len(m) /\ SubSeq(q, 1, Len(m)) = m

\* C17: a recv_message that fails with the compression error has read
\* every frame of the compressed message and nothing after it, and has
\* left the channel table, supported_identifiers, the channel code counter
\* and the wire alone; the recv_message after it returns the message that
\* follows.
C17_CompressedAbortsReceiveOnly ==
    [][/\ (result'.op = "recv_message" /\ result'.error = "NotImplementedError"
              /\ Len(inbound') <= Len(inbound))
             => /\ Len(inbound) >= HeadFrames(inbound)
                /\ result'.frames = SubSeq(inbound, 1, HeadFrames(inbound))
                /\ inbound' = SubSeq(inbound, HeadFrames(inbound) + 1, Len(inbound))
                /\ \/ StartsWith(inbound, CompressedInThree)
                   \/ StartsWith(inbound, PeerMessage(2, 1, 1, CompressedPayload))
                /\ UNCHANGED <<channels, supported_identifiers, last_channel_code,
                               wire, pc>>
       /\ (StartsWith(inbound, CompressedInThree) /\ Len(inbound') <= Len(inbound))
             => /\ result'.error = "NotImplementedError"
                /\ Len(inbound') = Len(inbound) - 3
       /\ (/\ result.op = "recv_message"
           /\ result.error = "NotImplementedError"
           /\ Len(inbound') <= Len(inbound))
             => /\ StartsWith(inbound, ListInTwo)
                   => /\ result'.error = ""
                      /\ result'.ret = ListV(<<"a", "b">>)
                      /\ inbound' = SubSeq(inbound, 3, Len(inbound))
                /\ StartsWith(inbound, PeerMessage(4, 0, 2, ListOtherPayload))
                   => /\ result'.error = ""
                      /\ result'.ret = ListV(<<"b">>)
                      /\ inbound' = Tail(inbound)
                /\ StartsWith(inbound, PeerMessage(3, 1, 1, NullPayload))
                   => /\ result'.error = ""
                      /\ result'.ret = None
                      /\ inbound' = Tail(inbound)]_vars

\* a compressed message in three fragments was rejected, and the list in
\* two fragments behind it is what the next recv_message will read
C17_Witness ==
    /\ result.op = "recv_message"
    /\ result.error = "NotImplementedError"
    /\ result.frames = CompressedInThree
    /\ inbound = ListInTwo

\* the payload of the logical message at the head of q
PayloadAt(q) == q[HeadFrames(q)].data

\* the return value a payload of the peer carries
ReturnOf(payload) ==
    IF payload = NullPayload THEN None
    ELSE IF payload = ListPayload THEN ListV(<<"a", "b">>)
    ELSE IF payload = ListOtherPayload THEN ListV(<<"b">>)
    ELSE StrV(NotifySelector)

\* C20: the peer's messages are read in the order they were written: the
\* peer appends at the tail, and every receive, recv_message itself or
\* the single one a binding makes after its send, removes exactly the
\* frames of the first unread message and returns that message's value,
\* whatever its channel code, identifier and conversation index are.
C20_Fifo ==
    [][\/ /\ inbound' = inbound
          /\ pc.at = "idle"
       \/ /\ \E m \in FifoPeerMessages : inbound' = inbound \o m
          /\ UNCHANGED <<cur_message, last_channel_code, supported_identifiers,
                         channels, wire, pc, result>>
       \/ /\ inbound # <<>>
          /\ Len(inbound) >= HeadFrames(inbound)
          /\ inbound' = SubSeq(inbound, HeadFrames(inbound) + 1, Len(inbound))
          /\ result'.frames = SubSeq(inbound, 1, HeadFrames(inbound))
          /\ result'.packet = PayloadAt(inbound)
          /\ result'.ret = ReturnOf(PayloadAt(inbound))
          /\ pc.at = "idle" => result'.op = "recv_message" /\ result'.error = ""
          /\ pc.at = "ls"
                => /\ pc'.at = "idle"
                   /\ wire' = wire
                   /\ result'.op = "ls"
                   /\ result'.error =
                         IF ReturnOf(PayloadAt(inbound)) = None
                         THEN "DvtDirListError" ELSE ""
          /\ pc.at = "ls:make_channel"
                => IF ReturnOf(PayloadAt(inbound)) = None
                   THEN pc'.at = "ls" /\ Len(wire') = Len(wire) + 1
                   ELSE /\ pc'.at = "idle"
                        /\ result'.error = "AssertionError"
                        /\ wire' = wire
          /\ pc.at = "perform_handshake" => pc'.at = "idle" /\ wire' = wire]_vars

\* ls took as its reply the unsolicited list of another channel, which
\* was the first unread message, and left the message behind it unread
C20_Witness ==
    /\ result.op = "ls"
    /\ result.error = ""
    /\ result.channel = 1
    /\ result.frames = InTwo(PeerIdentifier, 0, 2, ListOtherPayload)
    /\ result.ret = ListV(<<"b">>)
    /\ inbound = PeerMessage(3, 1, 1, ListPayload)

\* w, the bytes of one write call, is the whole frame of the call `call`:
\* the message header, the payload header, the auxiliary and the selector
FrameOfCall(w, call) ==
    /\ w.channelCode = call[1]
    /\ w.expectsReply = (IF call[4] THEN 1 ELSE 0)
    /\ SelectorOf(w) = call[2]
    /\ IF PayloadHeaderParse(w.data).auxiliaryLength = 0
       THEN ~call[3].present
       ELSE call[3].present /\ AuxOf(w) = call[3].entries

WholeFrame(w) ==
    /\ DOMAIN w = DOMAIN NoFrame
    /\ w.cb = 32
    /\ w.fragmentId = 0
    /\ w.fragmentCount = 1
    /\ w.conversationIndex = 0
    /\ w.length = Len(w.data)
    /\ Len(w.data) >= 16
    /\ Len(w.data) = 16 + PayloadHeaderParse(w.data).totalLength
    /\ PayloadHeaderParse(w.data).auxiliaryLength <= PayloadHeaderParse(w.data).totalLength
    /\ \E call \in ConcSends : FrameOfCall(w, call)

====
